---- MODULE Spec2Model ----
(***************************************************************************)
(* A model of src/cpu.py: the LS-8 style CPU class, its loader, its ALU,   *)
(* its eleven instruction handlers and the fetch-dispatch loop of run().   *)
(*                                                                         *)
(* Python semantics that the code relies on are kept:                      *)
(*   - integers are unbounded (no handler masks a value to 8 bits);        *)
(*   - a list index i of a list of length n is legal iff -n <= i < n, a    *)
(*     negative index counting from the end; any other index raises        *)
(*     IndexError, which run() does not catch;                             *)
(*   - a missing key of branch_table raises KeyError, which run() catches. *)
(* src/cpu.py lines 99-102 carry the innermost "else" of the CMP chain one *)
(* indentation level too far left; it is read as the else of that chain.   *)
(***************************************************************************)
EXTENDS Integers, Sequences, FiniteSets, TLC

\* ------------------------------------------------------------------ opcodes
LDI == 130
PRN == 71
HLT == 1
MUL == 162
PUSH == 69
POP == 70
ADD == 160
CALL == 80
RET == 17
CMP == 167
JMP == 84

\* ------------------------------------------------------------- dimensions
RamSize == 256
RegCount == 8
\* self.sp: the index of the stack pointer register
sp == 7
StackTop == 244

\* ------------------------------------------------------------------ bounds
\* the longest run explored, in executed instructions
MaxSteps == 12
\* the longest program of the generated (not hand-written) input family
MaxInstr == 2
\* the largest magnitude of an operand of ADD or MUL that is explored (Python
\* integers are unbounded, the model checker's are 32 bits wide)
ValueLimit == 40000

\* ------------------------------------------------- Python list indexing
ValidIndex(i, n) == -n <= i /\ i < n

At(i, n) == IF i < 0 THEN i + n ELSE i

\* ---------------------------------------------------------- text conversions
RECURSIVE Digits(_, _)
\* the digits of n >= 0 in the given base, most significant first
Digits(n, base) ==
    IF n < base THEN <<n>> ELSE Append(Digits(n \div base, base), n % base)

RECURSIVE PadLeft(_, _)
PadLeft(s, width) == IF Len(s) >= width THEN s ELSE PadLeft(<<0>> \o s, width)

\* str(n), as print(n) writes it
DecimalLine(n) ==
    [pre |-> "", sign |-> IF n < 0 THEN "-" ELSE "",
     digits |-> Digits(IF n < 0 THEN -n ELSE n, 10)]

\* f"Unknown Instruction {IR:08b}": zero padded to 8 characters, sign included
UnknownLine(IR) ==
    [pre |-> "Unknown Instruction ", sign |-> IF IR < 0 THEN "-" ELSE "",
     digits |-> IF IR < 0 THEN PadLeft(Digits(-IR, 2), 7)
                          ELSE PadLeft(Digits(IR, 2), 8)]

RECURSIVE FromBinary(_)
\* int(num, 2) for a string of binary digits
FromBinary(bits) ==
    IF Len(bits) = 0 THEN 0
    ELSE 2 * FromBinary(SubSeq(bits, 1, Len(bits) - 1)) + bits[Len(bits)]

\* --------------------------------------------------------------------- state
VARIABLES
    ram,        \* self.ram
    reg,        \* self.reg
    pc,         \* self.pc
    fl,         \* self.fl
    running,    \* self.running
    sub_pc,     \* self.sub_pc
    stdout,     \* the lines printed so far
    status,     \* where the process is: constructed, loaded, running, or how it ended
    exit_code,  \* the process exit status once it has ended abnormally, else 0
    file,       \* the lines of the program file read by load()
    address,    \* load()'s local: the next address to fill
    executed,   \* history: the instructions whose handler returned, in order,
                \* each with the register file it started from
    calls,      \* history: the CALLs that have not returned yet, innermost last
    overwrote   \* history: a store has hit a cell of the loaded program image

vars == <<ram, reg, pc, fl, running, sub_pc, stdout, status, exit_code, file,
          address, executed, calls, overwrote>>

\* the CPU object as the handlers see it
Self == [ram |-> ram, reg |-> reg, pc |-> pc, fl |-> fl, running |-> running,
         sub_pc |-> sub_pc, stdout |-> stdout, raised |-> "none"]

Raise(self, exception) == [self EXCEPT !.raised = exception]

branch_table == {LDI, PRN, HLT, MUL, PUSH, POP, ADD, CALL, RET, CMP, JMP}

\* ----------------------------------------------------------------------- ALU
\* faulty variant: the equality test left out
alu_CMP_NoEqual(x, y) == IF x < y THEN 4 ELSE 2

alu_CMP(x, y) ==
    IF x = y THEN 1
    ELSE IF x < y THEN 4
    ELSE IF x > y THEN 2
    ELSE 0

\* faulty variant: MUL wired to the addition
alu_MulAdds(self, op, reg_a, reg_b) ==
    IF op \notin {"ADD", "MUL", "CMP"} THEN Raise(self, "Exception")
    ELSE IF ~ValidIndex(reg_a, RegCount) \/ ~ValidIndex(reg_b, RegCount)
        THEN Raise(self, "IndexError")
    ELSE LET a == At(reg_a, RegCount)
             b == At(reg_b, RegCount)
         IN CASE op \in {"ADD", "MUL"} ->
                    [self EXCEPT !.reg[a] = self.reg[a] + self.reg[b]]
              [] op = "CMP" -> [self EXCEPT !.fl = alu_CMP(self.reg[a], self.reg[b])]

\* faulty variant: the result of ADD and MUL stored in the second register
alu_StoresInB(self, op, reg_a, reg_b) ==
    IF op \notin {"ADD", "MUL", "CMP"} THEN Raise(self, "Exception")
    ELSE IF ~ValidIndex(reg_a, RegCount) \/ ~ValidIndex(reg_b, RegCount)
        THEN Raise(self, "IndexError")
    ELSE LET a == At(reg_a, RegCount)
             b == At(reg_b, RegCount)
         IN CASE op = "ADD" -> [self EXCEPT !.reg[b] = self.reg[a] + self.reg[b]]
              [] op = "MUL" -> [self EXCEPT !.reg[b] = self.reg[a] * self.reg[b]]
              [] op = "CMP" -> [self EXCEPT !.fl = alu_CMP(self.reg[a], self.reg[b])]

alu(self, op, reg_a, reg_b) ==
    IF op \notin {"ADD", "MUL", "CMP"} THEN Raise(self, "Exception")
    ELSE IF ~ValidIndex(reg_a, RegCount) \/ ~ValidIndex(reg_b, RegCount)
        THEN Raise(self, "IndexError")
    ELSE LET a == At(reg_a, RegCount)
             b == At(reg_b, RegCount)
         IN CASE op = "ADD" -> [self EXCEPT !.reg[a] = self.reg[a] + self.reg[b]]
              [] op = "MUL" -> [self EXCEPT !.reg[a] = self.reg[a] * self.reg[b]]
              [] op = "CMP" -> [self EXCEPT !.fl = alu_CMP(self.reg[a], self.reg[b])]

\* ------------------------------------------------------------------ handlers
NotSub(self) == IF self.raised = "none" THEN [self EXCEPT !.sub_pc = FALSE] ELSE self

\* faulty variant: the flags cleared by a load
handle_LDI_ClearsFlags(self, operands) ==
    IF ~ValidIndex(operands.a, RegCount) THEN Raise(self, "IndexError")
    ELSE [self EXCEPT !.reg[At(operands.a, RegCount)] = operands.b,
                      !.fl = 0,
                      !.sub_pc = FALSE]

handle_LDI(self, operands) ==
    IF ~ValidIndex(operands.a, RegCount) THEN Raise(self, "IndexError")
    ELSE [self EXCEPT !.reg[At(operands.a, RegCount)] = operands.b,
                      !.sub_pc = FALSE]

\* faulty variant: the register index printed instead of the register
handle_PRN_PrintsIndex(self, operands) ==
    IF ~ValidIndex(operands.a, RegCount) THEN Raise(self, "IndexError")
    ELSE [self EXCEPT !.stdout = Append(@, DecimalLine(operands.a)),
                      !.sub_pc = FALSE]

handle_PRN(self, operands) ==
    IF ~ValidIndex(operands.a, RegCount) THEN Raise(self, "IndexError")
    ELSE [self EXCEPT
            !.stdout = Append(@, DecimalLine(self.reg[At(operands.a, RegCount)])),
            !.sub_pc = FALSE]

handle_MUL(self, operands) == NotSub(alu(self, "MUL", operands.a, operands.b))

handle_ADD(self, operands) == NotSub(alu(self, "ADD", operands.a, operands.b))

handle_CMP(self, operands) == NotSub(alu(self, "CMP", operands.a, operands.b))

\* faulty variant: the value stored before the stack pointer is decremented
handle_PUSH_StoresThenDecrements(self, operands) ==
    IF ~ValidIndex(operands.a, RegCount) \/ ~ValidIndex(self.reg[sp], RamSize)
    THEN Raise(self, "IndexError")
    ELSE [self EXCEPT !.ram[At(self.reg[sp], RamSize)] =
                          self.reg[At(operands.a, RegCount)],
                      !.reg[sp] = @ - 1,
                      !.sub_pc = FALSE]

handle_PUSH(self, operands) ==
    LET dec == [self EXCEPT !.reg[sp] = @ - 1]
    IN  IF ~ValidIndex(operands.a, RegCount) THEN Raise(dec, "IndexError")
        ELSE LET value == dec.reg[At(operands.a, RegCount)]
                 addr == dec.reg[sp]
             IN  IF ~ValidIndex(addr, RamSize) THEN Raise(dec, "IndexError")
                 ELSE [dec EXCEPT !.ram[At(addr, RamSize)] = value,
                                  !.sub_pc = FALSE]

\* faulty variant: the stack pointer not incremented
handle_POP_KeepsSP(self, operands) ==
    IF ~ValidIndex(self.reg[sp], RamSize) \/ ~ValidIndex(operands.a, RegCount)
    THEN Raise(self, "IndexError")
    ELSE [self EXCEPT !.reg[At(operands.a, RegCount)] =
                          self.ram[At(self.reg[sp], RamSize)],
                      !.sub_pc = FALSE]

handle_POP(self, operands) ==
    IF ~ValidIndex(self.reg[sp], RamSize) \/ ~ValidIndex(operands.a, RegCount)
    THEN Raise(self, "IndexError")
    ELSE LET loaded == [self EXCEPT !.reg[At(operands.a, RegCount)] =
                                        self.ram[At(self.reg[sp], RamSize)]]
         IN  [loaded EXCEPT !.reg[sp] = @ + 1, !.sub_pc = FALSE]

\* faulty variant: the address of the CALL's operand pushed as return address
handle_CALL_ReturnsToOperand(self, operands) ==
    LET dec == [self EXCEPT !.reg[sp] = @ - 1]
    IN  IF ~ValidIndex(dec.reg[sp], RamSize) THEN Raise(dec, "IndexError")
        ELSE LET stored == [dec EXCEPT !.ram[At(dec.reg[sp], RamSize)] = self.pc + 1]
             IN  IF ~ValidIndex(operands.a, RegCount) THEN Raise(stored, "IndexError")
                 ELSE [stored EXCEPT !.pc = stored.reg[At(operands.a, RegCount)],
                                     !.sub_pc = TRUE]

handle_CALL(self, operands) ==
    LET dec == [self EXCEPT !.reg[sp] = @ - 1]
    IN  IF ~ValidIndex(dec.reg[sp], RamSize) THEN Raise(dec, "IndexError")
        ELSE LET stored == [dec EXCEPT !.ram[At(dec.reg[sp], RamSize)] = self.pc + 2]
             IN  IF ~ValidIndex(operands.a, RegCount) THEN Raise(stored, "IndexError")
                 ELSE [stored EXCEPT !.pc = stored.reg[At(operands.a, RegCount)],
                                     !.sub_pc = TRUE]

\* faulty variant: the return address read but not removed from the stack
handle_RET_KeepsSP(self, operands) ==
    IF ~ValidIndex(self.reg[sp], RamSize) THEN Raise(self, "IndexError")
    ELSE [self EXCEPT !.pc = self.ram[At(self.reg[sp], RamSize)],
                      !.sub_pc = TRUE]

handle_RET(self, operands) ==
    IF ~ValidIndex(self.reg[sp], RamSize) THEN Raise(self, "IndexError")
    ELSE [self EXCEPT !.pc = self.ram[At(self.reg[sp], RamSize)],
                      !.reg[sp] = @ + 1,
                      !.sub_pc = TRUE]

handle_JMP(self, operands) ==
    IF ~ValidIndex(operands.a, RegCount) THEN Raise(self, "IndexError")
    ELSE [self EXCEPT !.pc = self.reg[At(operands.a, RegCount)], !.sub_pc = TRUE]

\* faulty variant: the running flag left set
handle_HLT_KeepsRunning(self, operands) == self

\* faulty variant: the flags reset on halt
handle_HLT_Resets(self, operands) == [self EXCEPT !.running = FALSE, !.fl = 0]

handle_HLT(self, operands) == [self EXCEPT !.running = FALSE]

\* self.branch_table[IR](operands), for IR a key of the table
Dispatch(self, IR, operands) ==
    CASE IR = LDI -> handle_LDI(self, operands)
      [] IR = PRN -> handle_PRN(self, operands)
      [] IR = HLT -> handle_HLT(self, operands)
      [] IR = MUL -> handle_MUL(self, operands)
      [] IR = PUSH -> handle_PUSH(self, operands)
      [] IR = POP -> handle_POP(self, operands)
      [] IR = ADD -> handle_ADD(self, operands)
      [] IR = CALL -> handle_CALL(self, operands)
      [] IR = RET -> handle_RET(self, operands)
      [] IR = CMP -> handle_CMP(self, operands)
      [] IR = JMP -> handle_JMP(self, operands)

\* ((IR >> 6) & 0b11) + 1
instruction_size(IR) == ((IR \div 64) % 4) + 1

\* whether the three reads that open an iteration of run() succeed
Fetchable(self) ==
    /\ ValidIndex(self.pc, RamSize)
    /\ ValidIndex(self.pc + 1, RamSize)
    /\ ValidIndex(self.pc + 2, RamSize)

FetchIR(self) == self.ram[At(self.pc, RamSize)]

FetchOperands(self) ==
    [a |-> self.ram[At(self.pc + 1, RamSize)],
     b |-> self.ram[At(self.pc + 2, RamSize)]]

\* the update of the program counter that closes an iteration of run()
Advance(self, IR) ==
    IF self.sub_pc THEN self ELSE [self EXCEPT !.pc = @ + instruction_size(IR)]

\* one iteration of the while loop of run(); raised tells how it ended:
\* "none" (the iteration completed), "IndexError"/"Exception" (uncaught),
\* "SystemExit" (the KeyError handler printed and called sys.exit(1))
Iteration(self) ==
    IF ~Fetchable(self) THEN Raise(self, "IndexError")
    ELSE LET IR == FetchIR(self)
             operands == FetchOperands(self)
         IN  IF IR \notin branch_table
             THEN Raise([self EXCEPT !.stdout = Append(@, UnknownLine(IR))],
                        "SystemExit")
             ELSE LET done == Dispatch(self, IR, operands)
                  IN  IF done.raised # "none" THEN done ELSE Advance(done, IR)

\* -------------------------------------------------------------------- loader
\* a line of the program file: text is line.split("#")[0].strip(), a string of
\* binary digits (empty on a blank or comment-only line); comment tells
\* whether a '#' comment follows
CodeLine(value) == [text |-> PadLeft(Digits(value, 2), 8), comment |-> FALSE]

CommentOnly == [text |-> <<>>, comment |-> TRUE]

Blank == [text |-> <<>>, comment |-> FALSE]

RECURSIVE LoadLines_BlankTakesAddress(_, _, _)
\* faulty variant: a blank or comment-only line consumes an address
LoadLines_BlankTakesAddress(lines, memory, addr) ==
    IF Len(lines) = 0 THEN [ram |-> memory, address |-> addr, raised |-> "none"]
    ELSE LET num == Head(lines).text
         IN  IF Len(num) = 0
             THEN LoadLines_BlankTakesAddress(Tail(lines), memory, addr + 1)
             ELSE IF ~ValidIndex(addr, RamSize)
                 THEN [ram |-> memory, address |-> addr, raised |-> "IndexError"]
             ELSE LoadLines_BlankTakesAddress(Tail(lines),
                            [memory EXCEPT ![addr] = FromBinary(num)], addr + 1)

RECURSIVE LoadLines(_, _, _)
\* the for loop of load(): the memory, the next address and whether the
\* store at an address past the end of memory raised
LoadLines(lines, memory, addr) ==
    IF Len(lines) = 0 THEN [ram |-> memory, address |-> addr, raised |-> "none"]
    ELSE LET num == Head(lines).text
         IN  IF Len(num) = 0 THEN LoadLines(Tail(lines), memory, addr)
             ELSE IF ~ValidIndex(addr, RamSize)
                 THEN [ram |-> memory, address |-> addr, raised |-> "IndexError"]
             ELSE LoadLines(Tail(lines),
                            [memory EXCEPT ![addr] = FromBinary(num)], addr + 1)

\* ------------------------------------------------------------ program inputs
RECURSIVE Flatten(_)
Flatten(instrs) == IF Len(instrs) = 0 THEN <<>> ELSE Head(instrs) \o Flatten(Tail(instrs))

FileOf(bytes) == [i \in 1..Len(bytes) |-> CodeLine(bytes[i])]

\* the same program written with a heading comment, a blank line and a
\* trailing comment on its first value
Decorated(bytes) ==
    <<CommentOnly, [CodeLine(bytes[1]) EXCEPT !.comment = TRUE], Blank>>
        \o Tail(FileOf(bytes))

\* values at the edges of the byte range and around a carry
Vals == {0, 1, 2, 15, 16, 17, 128, 255}

\* LDI R0,8; LDI R1,9; MUL R0,R1; PRN R0; HLT
MultBytes == <<LDI, 0, 8, LDI, 1, 9, MUL, 0, 1, PRN, 0, HLT>>

\* LDI Ra,x; LDI Rb,y; OP Ra,Rb; PRN Ra; HLT
AluPrograms ==
    {<<LDI, a, x, LDI, b, y, op, a, b, PRN, a, HLT>> :
        op \in {ADD, MUL, CMP}, a \in {0, 1, 7}, b \in {0, 1, 7}, x \in Vals, y \in Vals}

\* LDI Ra,v; PRN Ra; HLT
PrintPrograms == {<<LDI, a, v, PRN, a, HLT>> : a \in 0..7, v \in 0..255}

\* LDI Ra,v; PUSH Ra; POP Rb; PRN Rb; HLT
StackPrograms ==
    {<<LDI, a, v, PUSH, a, POP, b, PRN, b, HLT>> : a \in 0..7, b \in 0..7, v \in Vals}

\* LDI R7,s; LDI R0,w; PUSH R0; HLT: a store aimed by the program itself,
\* at its own bytes (s = 7..9), at the top of memory or past its end
AimPrograms ==
    {<<LDI, 7, s, LDI, 0, w, PUSH, 0, HLT>> :
        s \in {7, 8, 9, 255, 256, 257}, w \in {0, HLT, JMP}}

\* what a subroutine may do between its entry and its CALL or RET
Bodies ==
    { <<>>,
      <<PUSH, 0, POP, 3>>,        \* balanced
      <<POP, 3, PUSH, 3>>,        \* balanced, the return slot rewritten
      <<POP, 3, PUSH, 1>>,        \* balanced, the return slot overwritten
      <<PUSH, 0>>,                \* one more PUSH than POP
      <<ADD, 7, 2>>,              \* R7 written (R2 = 0)
      <<ADD, 2, 1>> }

\* main: LDI R0,sub1; LDI R1,sub2; CALL R0; PRN R2; HLT
\* sub1: body1; CALL R1; RET        sub2: body2; RET
CallProgram(body1, body2) ==
    LET sub1 == body1 \o <<CALL, 1, RET>>
        sub2 == body2 \o <<RET>>
    IN  <<LDI, 0, 11, LDI, 1, 11 + Len(sub1), CALL, 0, PRN, 2, HLT>> \o sub1 \o sub2

CallPrograms == {CallProgram(b1, b2) : b1 \in Bodies, b2 \in Bodies}

\* the instructions of the generated programs
Instrs ==
    { <<LDI, 0, 254>>, <<LDI, 7, 2>>, <<LDI, 8, 2>>,
      <<PRN, 7>>, <<PUSH, 0>>, <<PUSH, 7>>, <<POP, 0>>, <<POP, 7>>,
      <<CALL, 0>>, <<JMP, 0>>, <<RET>>, <<HLT>>, <<0>>,
      <<ADD, 7, 7>>, <<MUL, 0, 7>>, <<CMP, 0, 7>> }

\* every sequence of at most MaxInstr instructions, closed by a HLT
GeneratedPrograms ==
    {Flatten(p) \o <<HLT>> : p \in UNION {[1..n -> Instrs] : n \in 0..MaxInstr}}

\* LDI R0,v1; LDI R1,v2; PUSH R0; PUSH R1; POP R2; POP R3; HLT
LifoPrograms ==
    {<<LDI, 0, v1, LDI, 1, v2, PUSH, 0, PUSH, 1, POP, 2, POP, 3, HLT>> :
        v1 \in Vals, v2 \in Vals}
    \cup {<<LDI, 0, 5, LDI, 1, 6, LDI, 2, 7, PUSH, 0, PUSH, 1, PUSH, 2,
            POP, 3, POP, 4, POP, 5, HLT>>}

\* LDI R0,t; JMP R0; HLT; HLT: a jump onto a HLT (t = 5, 6) or behind the
\* program (t = 7)
JumpPrograms == {<<LDI, 0, t, JMP, 0, HLT, HLT>> : t \in {5, 6, 7}}

\* LDI R7,t+1; LDI R0,op; PUSH R0; LDI R1,t; JMP R1: the byte op stored at
\* address t near the end of memory, then a jump to it
EdgePrograms ==
    {<<LDI, 7, t + 1, LDI, 0, op, PUSH, 0, LDI, 1, t, JMP, 1>> :
        t \in {253, 254, 255}, op \in {HLT, RET, PRN, 0}}

\* LDI R0,t; JMP R0; zeros up to address t - 1; HLT at address t
PaddedProgram(t) ==
    [i \in 1..(t + 1) |-> IF i <= 5 THEN <<LDI, 0, t, JMP, 0>>[i]
                          ELSE IF i = t + 1 THEN HLT ELSE 0]

\* one value more than memory has cells
OversizeBytes == [i \in 1..(RamSize + 1) |-> 255]

Programs ==
    {MultBytes} \cup AluPrograms \cup PrintPrograms \cup StackPrograms
        \cup AimPrograms \cup CallPrograms \cup GeneratedPrograms
        \cup LifoPrograms \cup JumpPrograms \cup EdgePrograms
        \cup {PaddedProgram(254), PaddedProgram(255), OversizeBytes}

RECURSIVE Interleaved(_)
\* the same program with a blank line before and a comment-only line after
\* every value
Interleaved(bytes) ==
    IF Len(bytes) = 0 THEN <<Blank>>
    ELSE <<Blank, CodeLine(Head(bytes)), CommentOnly>> \o Interleaved(Tail(bytes))

Files ==
    {FileOf(p) : p \in Programs}
        \cup {Decorated(MultBytes), Interleaved(MultBytes), <<Blank, CommentOnly>>}
        \cup {Interleaved(p) : p \in JumpPrograms}

\* the values load() stored, in address order
HasValue(line) == Len(line.text) > 0

ImageOf(f) == LET lines == SelectSeq(f, HasValue)
              IN  [i \in 1..Len(lines) |-> FromBinary(lines[i].text)]

RECURSIVE StraightFrom(_, _)
\* bytes[i..] decodes as recognised instructions other than JMP, CALL and RET,
\* their register operands in 0..7, the last one a HLT that ends the image
StraightFrom(bytes, i) ==
    IF i > Len(bytes) THEN FALSE
    ELSE LET op == bytes[i]
             size == instruction_size(op)
         IN  /\ op \in branch_table \ {JMP, CALL, RET}
             /\ i + size - 1 <= Len(bytes)
             /\ op # HLT => bytes[i + 1] \in 0..7
             /\ op \in {ADD, MUL, CMP} => bytes[i + 2] \in 0..7
             /\ IF i + size - 1 = Len(bytes) THEN op = HLT
                ELSE StraightFrom(bytes, i + size)

\* the files whose program is straight-line code that ends in HLT
StraightFiles == {f \in Files : StraightFrom(ImageOf(f), 1)}

\* ---------------------------------------------------------------------- Init
Init ==
    /\ ram = [i \in 0..(RamSize - 1) |-> 0]
    /\ reg = [i \in 0..(RegCount - 1) |-> IF i = sp THEN StackTop ELSE 0]
    /\ pc = 0
    /\ fl = 0
    /\ running = FALSE
    /\ sub_pc = FALSE
    /\ stdout = <<>>
    /\ status = "constructed"
    /\ exit_code = 0
    /\ file = <<>>
    /\ address = 0
    /\ executed = <<>>
    /\ calls = <<>>
    /\ overwrote = FALSE

\* ------------------------------------------------------------------- actions
\* load() with len(sys.argv) != 2
LoadUsage ==
    /\ status = "constructed"
    /\ stdout' = Append(stdout, [pre |-> "usage: ls8.py <filename>", sign |-> "",
                                 digits |-> <<>>])
    /\ status' = "UsageError"
    /\ exit_code' = 1
    /\ UNCHANGED <<ram, reg, pc, fl, running, sub_pc, file, address, executed,
                   calls, overwrote>>

\* faulty variant: the exit status of the usage error used for a missing file
LoadNotFound_ExitsOne ==
    /\ status = "constructed"
    /\ stdout' = Append(stdout, [pre |-> "not found", sign |-> "", digits |-> <<>>])
    /\ status' = "FileNotFound"
    /\ exit_code' = 1
    /\ UNCHANGED <<ram, reg, pc, fl, running, sub_pc, file, address, executed,
                   calls, overwrote>>

\* load() when open() raises FileNotFoundError: it prints
\* f"{sys.argv[0]}: {sys.argv[1]} not found" and exits with status 2
LoadNotFound ==
    /\ status = "constructed"
    /\ stdout' = Append(stdout, [pre |-> "not found", sign |-> "", digits |-> <<>>])
    /\ status' = "FileNotFound"
    /\ exit_code' = 2
    /\ UNCHANGED <<ram, reg, pc, fl, running, sub_pc, file, address, executed,
                   calls, overwrote>>

\* load() on a file that exists, one of the given files
LoadFrom(files) ==
    /\ status = "constructed"
    /\ \E f \in files :
        LET done == LoadLines(f, ram, 0)
        IN  /\ file' = f
            /\ ram' = done.ram
            /\ address' = done.address
            /\ status' = IF done.raised = "none" THEN "loaded" ELSE done.raised
            /\ exit_code' = IF done.raised = "none" THEN exit_code ELSE 1
    /\ UNCHANGED <<reg, pc, fl, running, sub_pc, stdout, executed, calls, overwrote>>

LoadFile == LoadFrom(Files)

LoadStraight == LoadFrom(StraightFiles)

\* run(), up to the first test of the while loop
RunStart ==
    /\ status = "loaded"
    /\ running' = TRUE
    /\ status' = "running"
    /\ UNCHANGED <<ram, reg, pc, fl, sub_pc, stdout, exit_code, file, address,
                   executed, calls, overwrote>>

\* the cell a completed PUSH or CALL stores into
StoredSlot == At(reg[sp] - 1, RamSize)

WritesR7(IR, operands) ==
    /\ IR \in {LDI, ADD, MUL, POP}
    /\ At(operands.a, RegCount) = sp

MarkSlot(cs, slot) ==
    [i \in 1..Len(cs) |-> IF cs[i].slot = slot THEN [cs[i] EXCEPT !.ok = FALSE] ELSE cs[i]]

MarkAll(cs) == [i \in 1..Len(cs) |-> [cs[i] EXCEPT !.ok = FALSE]]

\* the CALLs still open after a completed instruction IR
NextCalls(IR, operands) ==
    CASE IR = CALL -> Append(MarkSlot(calls, StoredSlot),
                             [at |-> pc, r7 |-> reg[sp], slot |-> StoredSlot, ok |-> TRUE])
      [] IR = PUSH -> MarkSlot(calls, StoredSlot)
      [] IR = RET -> IF Len(calls) = 0 THEN calls ELSE SubSeq(calls, 1, Len(calls) - 1)
      [] WritesR7(IR, operands) -> MarkAll(calls)
      [] OTHER -> calls

Magnitude(n) == IF n < 0 THEN -n ELSE n

\* the next iteration computes no value beyond the explored range
Explored ==
    /\ Len(executed) < MaxSteps
    /\ IF ~Fetchable(Self) THEN TRUE
       ELSE IF FetchIR(Self) \notin {ADD, MUL} THEN TRUE
       ELSE IF ~ValidIndex(FetchOperands(Self).a, RegCount) THEN TRUE
       ELSE IF ~ValidIndex(FetchOperands(Self).b, RegCount) THEN TRUE
       ELSE /\ Magnitude(reg[At(FetchOperands(Self).a, RegCount)]) <= ValueLimit
            /\ Magnitude(reg[At(FetchOperands(Self).b, RegCount)]) <= ValueLimit

SetCPU(done) ==
    /\ ram' = done.ram
    /\ reg' = done.reg
    /\ pc' = done.pc
    /\ fl' = done.fl
    /\ running' = done.running
    /\ sub_pc' = done.sub_pc
    /\ stdout' = done.stdout

\* an iteration of the loop of run() that completes; the loop ends when the
\* handler cleared self.running
Step ==
    /\ status = "running"
    /\ Explored
    /\ LET done == Iteration(Self)
           IR == FetchIR(Self)
           operands == FetchOperands(Self)
       IN  /\ done.raised = "none"
           /\ SetCPU(done)
           /\ status' = IF done.running THEN "running" ELSE "HALTED"
           /\ executed' = Append(executed, [pc |-> pc, IR |-> IR, a |-> operands.a,
                                            b |-> operands.b, regs |-> reg])
           /\ calls' = NextCalls(IR, operands)
           /\ overwrote' = (overwrote \/ (IR \in {PUSH, CALL} /\ StoredSlot < address))
    /\ UNCHANGED <<exit_code, file, address>>

\* an iteration that fetches a byte with no handler: the KeyError branch
StepUnknown ==
    /\ status = "running"
    /\ Explored
    /\ LET done == Iteration(Self)
       IN  /\ done.raised = "SystemExit"
           /\ SetCPU(done)
    /\ status' = "UnknownOpcode"
    /\ exit_code' = 1
    /\ UNCHANGED <<file, address, executed, calls, overwrote>>

\* an iteration ended by an exception run() does not catch
StepRaise ==
    /\ status = "running"
    /\ Explored
    /\ LET done == Iteration(Self)
       IN  /\ done.raised \in {"IndexError", "Exception"}
           /\ SetCPU(done)
           /\ status' = IF done.raised = "Exception" THEN "UnsupportedALUOperation"
                        ELSE "IndexError"
    /\ exit_code' = 1
    /\ UNCHANGED <<file, address, executed, calls, overwrote>>

Next == LoadUsage \/ LoadNotFound \/ LoadFile \/ RunStart \/ Step \/ StepUnknown \/ StepRaise

Spec == Init /\ [][Next]_vars

\* the runs of the straight-line programs alone; run() is sequential code, so
\* a step that can be taken is taken
NextStraight ==
    LoadUsage \/ LoadNotFound \/ LoadStraight \/ RunStart \/ Step \/ StepUnknown
        \/ StepRaise

StraightSpec == Init /\ [][NextStraight]_vars /\ WF_vars(NextStraight)

\* =================================================================== claims
\* the step just taken completed an instruction with opcode op
Ran(op) ==
    /\ Len(executed') = Len(executed) + 1
    /\ executed'[Len(executed')].IR = op

\* the operands of the instruction the step just taken completed
RanA == executed'[Len(executed')].a

RanB == executed'[Len(executed')].b

Count(op) == Cardinality({i \in 1..Len(executed) : executed[i].IR = op})

LastRan == executed[Len(executed)]

PrevRan == executed[Len(executed) - 1]

Stopped == status \in {"HALTED", "UnknownOpcode", "UnsupportedALUOperation", "IndexError"}

\* ------------------------------------------------------------------------ C1
\* C1: ADD a,b leaves reg[a] = (x + y) mod 256 and MUL a,b leaves
\* reg[a] = (x * y) mod 256, for register values x, y in 0..255.
C1_AddMulWrap ==
    [][\A op \in {ADD, MUL} :
        (/\ Ran(op)
         /\ RanA \in 0..7 /\ RanB \in 0..7
         /\ reg[RanA] \in 0..255 /\ reg[RanB] \in 0..255)
        => reg'[RanA] = (IF op = ADD THEN reg[RanA] + reg[RanB]
                                     ELSE reg[RanA] * reg[RanB]) % 256]_vars

\* ------------------------------------------------------------------------ C2
\* C2: a RET that matches a CALL executed at address p, the stack balanced
\* since that CALL (R7 back to one below its value before the CALL, R7 not
\* otherwise written, the return slot not stored into), sets PC to p + 2 and
\* R7 to its value before the CALL; CALLs return innermost first.
C2_CallRetReturns ==
    [][(/\ Ran(RET)
        /\ Len(calls) > 0
        /\ calls[Len(calls)].ok
        /\ reg[sp] = calls[Len(calls)].r7 - 1)
       => (/\ pc' = calls[Len(calls)].at + 2
           /\ reg'[sp] = calls[Len(calls)].r7
           /\ calls' = SubSeq(calls, 1, Len(calls) - 1))]_vars

\* a CALL inside a called subroutine, both returned: control is back behind
\* the outer CALL (address 6 of the CallPrograms) with the stack pointer reset
C2_NestedReturned ==
    /\ Len(executed) >= 6
    /\ LastRan.IR = RET /\ PrevRan.IR = RET
    /\ Count(CALL) = 2 /\ Count(RET) = 2
    /\ calls = <<>>
    /\ pc = 8
    /\ reg[sp] = StackTop

\* ------------------------------------------------------------------------ C3
\* the last two instructions completed were PUSH Ra then POP Rb, a # b, both
\* register indices in regs, and the run has gone no further
PushThenPop(regs) ==
    /\ Len(executed) >= 2
    /\ status \in {"running", "HALTED"}
    /\ PrevRan.IR = PUSH /\ LastRan.IR = POP
    /\ PrevRan.a \in regs /\ LastRan.a \in regs
    /\ PrevRan.a # LastRan.a

PushPopRoundTrip ==
    /\ reg[LastRan.a] = PrevRan.regs[PrevRan.a]
    /\ reg[sp] = PrevRan.regs[sp]

\* C3 as stated: PUSH Ra then POP Rb, a # b in 0..7, leaves reg[b] equal to
\* the value reg[a] held before the PUSH and R7 equal to its value before it.
C3_PushPopAnyRegister == PushThenPop(0..7) => PushPopRoundTrip

\* C3 amended: the same for a # b in 0..6, neither being the stack pointer.
C3_PushPopRoundTrip == PushThenPop(0..6) => PushPopRoundTrip

C3_RoundTripped ==
    /\ PushThenPop(0..6)
    /\ PrevRan.regs[PrevRan.a] = 255
    /\ reg[LastRan.a] = 255
    /\ PrevRan.regs[LastRan.a] = 0

\* ------------------------------------------------------------------------ C4
\* C4: when the byte at PC has no handler the run ends in the error outcome,
\* having printed 'Unknown Instruction ' and the byte as 8 binary digits,
\* with exit code 1 and registers, memory, flags and PC as they were; nothing
\* is executed afterwards.
C4_UnknownOpcodeErrors ==
    [][/\ (/\ status = "running"
           /\ ValidIndex(pc, RamSize)
           /\ ram[At(pc, RamSize)] \in (0..255) \ branch_table)
          => (/\ status' = "UnknownOpcode"
              /\ exit_code' = 1
              /\ stdout' = Append(stdout,
                    [pre |-> "Unknown Instruction ", sign |-> "",
                     digits |-> PadLeft(Digits(ram[At(pc, RamSize)], 2), 8)])
              /\ Len(stdout'[Len(stdout')].digits) = 8
              /\ UNCHANGED <<ram, reg, fl, pc>>)
       /\ status = "UnknownOpcode" => UNCHANGED vars]_vars

\* ------------------------------------------------------------------------ C5
\* C5: a run stops only HALTED (by HLT) or in the error outcome (unknown
\* opcode, unsupported ALU operation); never for another reason such as an
\* index out of range.
C5_StopsOnlyHaltedOrError ==
    /\ Stopped => status \in {"HALTED", "UnknownOpcode", "UnsupportedALUOperation"}
    /\ status = "HALTED" => (Len(executed) > 0 /\ LastRan.IR = HLT)

\* ------------------------------------------------------------------------ C6
\* the loaded program is straight-line code that ends in HLT
StraightLine == status \notin {"constructed", "UsageError", "FileNotFound"}
                /\ StraightFrom(ImageOf(file), 1)

\* C6 as stated: the run of a straight-line program of recognised instructions
\* ending in HLT ends halted (it cannot have ended any other way).
C6_StraightLineHalts == (StraightLine /\ Stopped) => status = "HALTED"

\* C6 amended: such a program, as long as no PUSH stores into a cell of the
\* program image, never meets an unknown instruction, and its run ends after
\* finitely many steps, halted or by an uncaught IndexError (a fetch at
\* PC + 2 > 255 or a stack address outside memory).  The run is followed
\* while it stays in the explored range.
C6_StraightLineStops ==
    /\ [](StraightLine /\ ~overwrote => status # "UnknownOpcode")
    /\ [](StraightLine /\ status = "running"
            => <>(status \in {"HALTED", "IndexError"} \/ overwrote \/ ~Explored))

C6_Halted ==
    /\ StraightLine /\ ~overwrote
    /\ status = "HALTED"
    /\ Count(PUSH) = 1 /\ Count(POP) = 1
    /\ Len(executed) = 5

\* ------------------------------------------------------------------------ C7
\* C7: CMP a,b sets the flags to exactly one bit, the one of the true order
\* of reg[a] and reg[b]: 0b001 when equal, 0b100 when less, 0b010 when
\* greater; never 0 and never two bits.
C7_CmpSetsOneFlag ==
    [][(Ran(CMP) /\ RanA \in 0..7 /\ RanB \in 0..7)
       => (/\ reg[RanA] = reg[RanB] => fl' = 1
           /\ reg[RanA] < reg[RanB] => fl' = 4
           /\ reg[RanA] > reg[RanB] => fl' = 2
           /\ fl' \in {1, 2, 4})]_vars

C7_Compared ==
    /\ Len(executed) >= 3
    /\ LastRan.IR = CMP
    /\ LastRan.regs[LastRan.a] = 255 /\ LastRan.regs[LastRan.b] = 17
    /\ fl = 2

\* ------------------------------------------------------------------------ C8
\* C8: running turns false only in the step that executes HLT; that step
\* leaves registers, memory and flags as they were, and after it nothing is
\* fetched or executed.
C8_OnlyHltStops ==
    [][/\ (running /\ ~running') => (Ran(HLT) /\ UNCHANGED <<reg, ram, fl>>)
       /\ Ran(HLT) => (~running' /\ status' = "HALTED")
       /\ status = "HALTED" => UNCHANGED vars]_vars

C8_HaltedAfterWork ==
    /\ status = "HALTED" /\ ~running
    /\ Len(executed) >= 4
    /\ LastRan.IR = HLT
    /\ fl = 4

\* ------------------------------------------------------------------------ C9
RECURSIVE DecimalValue(_)
\* the number a string of decimal digits denotes
DecimalValue(digits) ==
    IF Len(digits) = 0 THEN 0
    ELSE 10 * DecimalValue(SubSeq(digits, 1, Len(digits) - 1)) + digits[Len(digits)]

\* C9: PRN Ra right after LDI Ra,v (a in 0..7, v in 0..255) appends exactly
\* the decimal text of v to the output; PRN changes no register, memory cell
\* or flag and appends behind what was already printed.
C9_LdiPrnPrints ==
    [][Ran(PRN)
       => (/\ UNCHANGED <<reg, ram, fl>>
           /\ Len(stdout') = Len(stdout) + 1
           /\ SubSeq(stdout', 1, Len(stdout)) = stdout
           /\ (/\ Len(executed) >= 1
               /\ LastRan.IR = LDI
               /\ LastRan.a = RanA
               /\ RanA \in 0..7
               /\ LastRan.b \in 0..255)
              => (/\ stdout'[Len(stdout')].pre = ""
                  /\ stdout'[Len(stdout')].sign = ""
                  /\ Len(stdout'[Len(stdout')].digits) \in 1..3
                  /\ DecimalValue(stdout'[Len(stdout')].digits) = LastRan.b))]_vars

C9_Printed255FromR7 ==
    /\ Len(executed) = 2
    /\ PrevRan.IR = LDI /\ PrevRan.a = 7 /\ PrevRan.b = 255
    /\ LastRan.IR = PRN /\ LastRan.a = 7
    /\ stdout = <<[pre |-> "", sign |-> "", digits |-> <<2, 5, 5>>]>>

\* ----------------------------------------------------------------------- C10
MultLoaded == file \in {FileOf(MultBytes), Decorated(MultBytes)}

\* C10: the run of LDI R0,8; LDI R1,9; MUL R0,R1; PRN R0; HLT prints the
\* single value 72 and stops halted, with no unknown-instruction error.
C10_MultPrints72 ==
    MultLoaded =>
        /\ status \in {"loaded", "running", "HALTED"}
        /\ stdout \in {<<>>, <<[pre |-> "", sign |-> "", digits |-> <<7, 2>>]>>}
        /\ status = "HALTED" => (/\ Len(stdout) = 1
                                 /\ Len(executed) = 5)
        /\ Len(executed) >= 4 => Len(stdout) = 1

C10_MultHalted ==
    /\ file = Decorated(MultBytes)
    /\ status = "HALTED"
    /\ stdout = <<[pre |-> "", sign |-> "", digits |-> <<7, 2>>]>>

\* ----------------------------------------------------------------------- C11
Min(a, b) == IF a < b THEN a ELSE b

\* memory holding image[k] at address k - 1 and 0 from address Len(image) on
Filled(image) ==
    [i \in 0..(RamSize - 1) |-> IF i < Len(image) THEN image[i + 1] ELSE 0]

\* C11: load() puts the value of the k-th line that has one at address k - 1,
\* in file order from address 0; blank and comment-only lines take no
\* address; every address from the number of loaded values on keeps 0; no
\* register, flag or the PC changes.
C11_LoaderFillsInOrder ==
    [][(status = "constructed" /\ file' # file)
       => \A image \in {ImageOf(file')} :
            /\ ram' = Filled(image)
            /\ address' = Min(Len(image), RamSize)
            /\ status' = IF Len(image) <= RamSize THEN "loaded" ELSE "IndexError"
            /\ UNCHANGED <<reg, fl, pc>>]_vars

\* the multiply program written with a blank line before and a comment-only
\* line after every value, loaded: 12 values at addresses 0..11
C11_InterleavedLoaded ==
    /\ status = "loaded"
    /\ Len(file) = 37
    /\ file[1] = Blank /\ file[3] = CommentOnly
    /\ address = 12
    /\ ram[0] = 130 /\ ram[1] = 0 /\ ram[2] = 8 /\ ram[6] = 162 /\ ram[9] = 71
    /\ ram[11] = 1 /\ ram[12] = 0

\* ----------------------------------------------------------------------- C12
NothingLoadedOrRun ==
    /\ \A i \in 0..(RamSize - 1) : ram[i] = 0
    /\ executed = <<>>
    /\ ~running
    /\ pc = 0

\* C12 as stated: a missing file ends the process with exit code 2 and no
\* output, a wrong argument count with exit code 1; memory is unmodified and
\* no instruction is executed.
C12_StartupFailuresSilent ==
    /\ status = "FileNotFound" => (exit_code = 2 /\ stdout = <<>> /\ NothingLoadedOrRun)
    /\ status = "UsageError" => (exit_code = 1 /\ NothingLoadedOrRun)

\* C12 amended: a missing file ends the process with exit code 2 after
\* printing one line, the "not found" message, and nothing else; a wrong
\* argument count ends it with exit code 1 after the usage line; in both
\* cases memory is unmodified and nothing is executed, then or later.
C12_StartupFailures ==
    [][/\ status' = "FileNotFound"
            => (/\ exit_code' = 2
                /\ Len(stdout') = 1 /\ stdout'[1].pre = "not found"
                /\ NothingLoadedOrRun')
       /\ status' = "UsageError"
            => (/\ exit_code' = 1
                /\ Len(stdout') = 1 /\ stdout'[1].pre = "usage: ls8.py <filename>"
                /\ NothingLoadedOrRun')
       /\ status \in {"FileNotFound", "UsageError"} => UNCHANGED vars]_vars

C12_FileNotFoundExit ==
    /\ status = "FileNotFound"
    /\ exit_code = 2
    /\ Len(stdout) = 1
    /\ NothingLoadedOrRun

\* ----------------------------------------------------------------------- C13
\* C13: after LDI, PRN, ADD, MUL, CMP, PUSH, POP or HLT the PC is its value
\* before the instruction plus ((opcode >> 6) & 0b11) + 1, whatever
\* instruction ran in the cycle before.
C13_PcAdvancesByWidth ==
    [][\A op \in {LDI, PRN, ADD, MUL, CMP, PUSH, POP, HLT} :
        Ran(op) => pc' = pc + ((op \div 64) % 4) + 1]_vars


\* ----------------------------------------------------------------------- C14
\* every value of a loaded file fits in a byte
ByteImage == \A i \in 1..Len(file) : HasValue(file[i]) => FromBinary(file[i].text) \in 0..255

\* C14: in every reachable state of a run of a program made of bytes, every
\* memory cell and every register (the stack pointer reg[7] included) holds a
\* value in 0..255 and the PC is an address in 0..255.
C14_BytesEverywhere ==
    ByteImage
    => /\ \A i \in 0..(RamSize - 1) : ram[i] \in 0..255
       /\ \A r \in 0..(RegCount - 1) : reg[r] \in 0..255
       /\ pc \in 0..255

\* ----------------------------------------------------------------------- C15
\* C15: the flags are always one of 0b000, 0b001, 0b010, 0b100; they are
\* 0b000 as long as no CMP has executed; and a step changes them only when
\* the instruction it executed is a CMP.
C15_FlagsOnlyByCmp ==
    [][/\ fl \in {0, 1, 2, 4} /\ fl' \in {0, 1, 2, 4}
       /\ Count(CMP) = 0 => fl = 0
       /\ fl' # fl => Ran(CMP)]_vars

\* a CMP set the Less flag and the PRN and HLT after it left it set
C15_FlagKeptToHalt ==
    /\ status = "HALTED"
    /\ Count(CMP) = 1
    /\ PrevRan.IR = PRN
    /\ fl = 4

\* ----------------------------------------------------------------------- C16
\* C16: during a run a step changes a memory cell only when the instruction
\* it fetched is a PUSH or a CALL, and then only the cell addressed by the
\* decremented stack pointer; a step that executes LDI, PRN, ADD, MUL, CMP,
\* JMP or HLT leaves all 256 cells unchanged.
C16_OnlyStackWritesMemory ==
    [][status = "running"
       => /\ \A op \in {LDI, PRN, ADD, MUL, CMP, JMP, HLT} : Ran(op) => ram' = ram
          /\ \A i \in 0..(RamSize - 1) :
                ram'[i] # ram[i]
                => IF ~Fetchable(Self) THEN FALSE
                   ELSE FetchIR(Self) \in {PUSH, CALL} /\ i = StoredSlot]_vars

\* LDI Ra,255; PUSH Ra stored 255 in the cell below the initial stack top
C16_PushedBelowTop ==
    /\ Len(executed) = 2
    /\ LastRan.IR = PUSH
    /\ reg[sp] = StackTop - 1
    /\ ram[StackTop - 1] = 255

\* ----------------------------------------------------------------------- C17
\* C17: a step that executes ADD a,b or MUL a,b changes no register other
\* than register a, no memory cell, not the flags and not the output; a step
\* that executes CMP a,b changes no register, no memory cell and not the
\* output.
C17_AluFrame ==
    [][/\ \A op \in {ADD, MUL} :
            Ran(op) => /\ \A r \in 0..(RegCount - 1) :
                            r # At(RanA, RegCount) => reg'[r] = reg[r]
                       /\ UNCHANGED <<ram, fl, stdout, running>>
       /\ Ran(CMP) => UNCHANGED <<reg, ram, stdout, running>>]_vars

\* ADD R0,R1 with R0 = 16 and R1 = 17 left 33 in R0 and 17 in R1
C17_AddedIntoFirst ==
    /\ Len(executed) = 3
    /\ LastRan.IR = ADD /\ LastRan.a = 0 /\ LastRan.b = 1
    /\ reg[0] = 33 /\ reg[1] = 17
    /\ fl = 0

\* ----------------------------------------------------------------------- C18
\* no completed instruction had R7 as the target of LDI, ADD, MUL or POP
NoR7Write == \A i \in 1..Len(executed) : ~WritesR7(executed[i].IR, executed[i])

\* the registers as the j-th completed instruction left them
After(j) == IF j = Len(executed) THEN reg ELSE executed[j + 1].regs

\* the value the PUSH recorded as e stored: PUSH decrements R7 before it
\* reads its register
Pushed(e) ==
    IF At(e.a, RegCount) = sp THEN e.regs[sp] - 1 ELSE e.regs[At(e.a, RegCount)]

\* the value the POP that completed j-th loaded into its register
Popped(j) == After(j)[At(executed[j].a, RegCount)]

\* the last 2n completed instructions are n PUSHes followed by n POPs
PushesThenPops(n) ==
    /\ Len(executed) >= 2 * n
    /\ \A k \in 1..n : /\ executed[Len(executed) - 2 * n + k].IR = PUSH
                       /\ executed[Len(executed) - n + k].IR = POP

\* C18: in a run where R7 was never the target of LDI, ADD, MUL or POP and
\* that no IndexError ended, reg[7] equals 0xF4 minus the number of PUSH and
\* CALL executed plus the number of POP and RET executed; and when the last
\* 2n instructions are n PUSHes then n POPs, the i-th POP loaded the value
\* the (n+1-i)-th PUSH stored.
C18_StackAccounting ==
    (status # "IndexError" /\ NoR7Write)
    => /\ reg[sp] = StackTop - (Count(PUSH) + Count(CALL)) + (Count(POP) + Count(RET))
       /\ \A n \in 1..(MaxSteps \div 2) :
            PushesThenPops(n)
            => \A i \in 1..n :
                 Popped(Len(executed) - n + i)
                     = Pushed(executed[Len(executed) - n + 1 - i])

\* PUSH R0, R1, R2 holding 5, 6, 7 and then POP R3, R4, R5 loaded 7, 6, 5
C18_ThreePoppedInReverse ==
    /\ Len(executed) = 9
    /\ PushesThenPops(3)
    /\ reg[0] = 5 /\ reg[1] = 6 /\ reg[2] = 7
    /\ reg[3] = 7 /\ reg[4] = 6 /\ reg[5] = 5
    /\ reg[sp] = StackTop

\* ----------------------------------------------------------------------- C19
\* C19: a recognised instruction whose bytes all lie inside memory
\* (PC + width - 1 <= 255) has its normal effect wherever it is placed: a HLT
\* reaches the halted state, a RET with the stack pointer inside memory jumps
\* to the address on the stack, a PRN of a register 0..7 prints that register,
\* also at addresses 254 and 255.
C19_ExecutesAtEdge ==
    [][(status = "running" /\ pc \in 0..(RamSize - 1))
       => ((ram[pc] \in branch_table /\ pc + instruction_size(ram[pc]) - 1 <= RamSize - 1)
           => /\ ram[pc] = HLT => status' = "HALTED"
              /\ (ram[pc] = RET /\ reg[sp] \in 0..(RamSize - 1))
                    => (Ran(RET) /\ pc' = ram[reg[sp]])
              /\ (ram[pc] = PRN /\ ram[pc + 1] \in 0..(RegCount - 1))
                    => (Ran(PRN)
                        /\ stdout' = Append(stdout, DecimalLine(reg[ram[pc + 1]]))))]_vars

====
